---------------------------- MODULE Spec2Model ----------------------------
(***************************************************************************)
(* A model of ts3.py: the ServerQuery codec (ts3_escape, _escape_str,      *)
(* _unescape_str, construct_command, parse_command) and the TS3Proto       *)
(* session (connect, disconnect, send_command, send).                      *)
(*                                                                         *)
(* A Python string is a sequence of one-character strings.  The control    *)
(* characters of ts3_escape are written by their ASCII names: "BEL" (\a),  *)
(* "BS" (\b), "FF" (\f), "LF" (\n), "CR" (\r), "HT" (\t), "VT" (\v).       *)
(***************************************************************************)
EXTENDS Integers, Sequences, FiniteSets, TLC

\* ---------------------------------------------------------------- bounds

\* Longest value given to _escape_str in SpecEscape.
MaxLen == 3

\* Longest generated line given to parse_command in SpecParse.
MaxLineLen == 4

\* ------------------------------------------------------- string helpers

\* A Python string: a sequence of characters.
PyStr == Seq(STRING)

\* Python's str.replace(old, new): leftmost, non-overlapping occurrences.
Replace[s \in PyStr, old \in PyStr, new \in PyStr] ==
    IF Len(s) < Len(old) THEN s
    ELSE IF SubSeq(s, 1, Len(old)) = old
         THEN new \o Replace[SubSeq(s, Len(old) + 1, Len(s)), old, new]
         ELSE <<s[1]>> \o Replace[Tail(s), old, new]

\* Python's str.split(sep) for a one-character sep: always at least one piece.
Split[s \in PyStr, sep \in STRING] ==
    IF \A i \in 1..Len(s) : s[i] # sep THEN <<s>>
    ELSE LET i == CHOOSE k \in 1..Len(s) :
                      s[k] = sep /\ \A j \in 1..(k - 1) : s[j] # sep
         IN  <<SubSeq(s, 1, i - 1)>> \o Split[SubSeq(s, i + 1, Len(s)), sep]

\* Python's sep.join(pieces).
Join[pieces \in Seq(PyStr), sep \in PyStr] ==
    IF Len(pieces) = 0 THEN <<>>
    ELSE IF Len(pieces) = 1 THEN pieces[1]
    ELSE pieces[1] \o sep \o Join[Tail(pieces), sep]

\* The characters str.strip() removes.
Whitespace == {" ", "HT", "LF", "CR", "VT", "FF"}

\* Python's str.strip().
Strip[s \in PyStr] ==
    IF Len(s) = 0 THEN s
    ELSE IF s[1] \in Whitespace THEN Strip[Tail(s)]
    ELSE IF s[Len(s)] \in Whitespace THEN Strip[SubSeq(s, 1, Len(s) - 1)]
    ELSE s

\* All strings over alphabet A of length at most n.
StringsUpTo(A, n) == UNION {[1..k -> A] : k \in 0..n}

\* ------------------------------------------------------- the escape table

\* ts3_escape: literal character -> escape token, in the order of the source.
ts3_escape ==
    << <<"/",   <<"\\", "/">> >>,
       <<" ",   <<"\\", "s">> >>,
       <<"|",   <<"\\", "p">> >>,
       <<"BEL", <<"\\", "a">> >>,
       <<"BS",  <<"\\", "b">> >>,
       <<"FF",  <<"\\", "f">> >>,
       <<"LF",  <<"\\", "n">> >>,
       <<"CR",  <<"\\", "r">> >>,
       <<"HT",  <<"\\", "t">> >>,
       <<"VT",  <<"\\", "v">> >> >>

\* ts3_escape.iteritems() yields the entries in an order the language leaves
\* unspecified (a Python 2 dict): the order is a permutation of the entries,
\* the same one in every call of one run.  The model draws it from the
\* source order, its reverse and a mixed one.
TableOrders ==
    { <<1, 2, 3, 4, 5, 6, 7, 8, 9, 10>>,
      <<10, 9, 8, 7, 6, 5, 4, 3, 2, 1>>,
      <<2, 4, 9, 5, 10, 7, 8, 3, 1, 6>> }

\* The loop of _escape_str over the entries ord[i..]: literal -> token.
EscapeLoop[value \in PyStr, ord \in Seq(Nat), i \in Nat] ==
    IF i > Len(ord) THEN value
    ELSE EscapeLoop[Replace[value, <<ts3_escape[ord[i]][1]>>, ts3_escape[ord[i]][2]],
                    ord, i + 1]

\* The loop of _unescape_str over the entries ord[i..]: token -> literal.
UnescapeLoop[value \in PyStr, ord \in Seq(Nat), i \in Nat] ==
    IF i > Len(ord) THEN value
    ELSE UnescapeLoop[Replace[value, ts3_escape[ord[i]][2], <<ts3_escape[ord[i]][1]>>],
                      ord, i + 1]

\* The decimal digits of a natural number ("%d" % value).
RECURSIVE Decimal(_)
Decimal(n) ==
    IF n < 10 THEN <<CHOOSE d \in {"0", "1", "2", "3", "4", "5", "6", "7", "8", "9"} :
                        d = ToString(n)>>
    ELSE Decimal(n \div 10) \o Decimal(n % 10)

\* A value passed to the codec: a string, an int or a list of strings.
StrV(s) == [t |-> "str", v |-> s]
IntV(n) == [t |-> "int", v |-> n]
ListV(l) == [t |-> "list", v |-> l]

\* An _escape_str that doubles the backslashes after the table loop.
EscapeTableFirst(value, ord) ==
    IF value.t = "int" THEN Decimal(value.v)
    ELSE Replace[EscapeLoop[value.v, ord, 1], <<"\\">>, <<"\\", "\\">>]

\* TS3Proto._escape_str of a string or int value.
escape_str(value, ord) ==
    IF value.t = "int" THEN Decimal(value.v)
    ELSE EscapeLoop[Replace[value.v, <<"\\">>, <<"\\", "\\">>], ord, 1]

\* TS3Proto._unescape_str of a string (parse_command passes strings only).
unescape_str(value, ord) ==
    UnescapeLoop[Replace[value, <<"\\", "\\">>, <<"\\">>], ord, 1]

\* ---------------------------------------------------------- parse_command

\* An empty Python dict; d[k] = v on a dict.
EmptyDict == [k \in {} |-> k]
DictSet(d, k, v) == [x \in DOMAIN d \cup {k} |-> IF x = k THEN v ELSE d[x]]

\* The state of parse_command's token loop: keys, opts and the exception
\* raised so far ("none" while the loop is running normally).
ParseStart == [keys |-> EmptyDict, opts |-> <<>>, exc |-> "none"]

\* The nested branch (a token with "|"): every piece is split on "=", the
\* piece's [1] is appended to output (IndexError when the piece has no "="),
\* and the list is stored under the key of the last piece.
NestedToken(acc, key) ==
    LET nkeys == Split[key, "|"]
        nvalue(i) == Split[nkeys[i], "="]
    IN  IF \E i \in 1..Len(nkeys) : Len(nvalue(i)) < 2
        THEN [acc EXCEPT !.exc = "IndexError"]
        ELSE [acc EXCEPT !.keys =
                 DictSet(acc.keys, nvalue(Len(nkeys))[1],
                         ListV([i \in 1..Len(nkeys) |-> nvalue(i)[2]]))]

\* One iteration of `for key in cmdlist[start:]`.
ParseToken(acc, key, ord) ==
    IF Len(Split[key, "|"]) > 1 THEN NestedToken(acc, key)
    ELSE IF Len(Split[key, "="]) > 1
    THEN [acc EXCEPT !.keys =
             DictSet(acc.keys, Split[key, "="][1],
                     StrV(unescape_str(Split[key, "="][2], ord)))]
    ELSE IF Len(key) = 0 THEN [acc EXCEPT !.exc = "IndexError"]
    ELSE IF key[1] = "-" THEN [acc EXCEPT !.opts = Append(acc.opts, Tail(key))]
    ELSE acc

\* The token loop from index i; it stops at the first exception.
RECURSIVE ParseLoop(_, _, _, _)
ParseLoop(acc, cmdlist, i, ord) ==
    IF i > Len(cmdlist) \/ acc.exc # "none" THEN acc
    ELSE ParseLoop(ParseToken(acc, cmdlist[i], ord), cmdlist, i + 1, ord)

\* A parse_command that always scans from the second token on.
ParseStartAfterFirst(cmdlist) == 2

\* The index (1-based) at which parse_command starts scanning cmdlist:
\* `start = 1`, or `start = 0` when the first token holds an "=".
ParseStartIndex(cmdlist) ==
    IF Len(Split[cmdlist[1], "="]) > 1 THEN 1 ELSE 2

\* A parse_command that keeps `command = cmdlist[0]` on every line.
ParseCommandFirstToken(cmdlist) == cmdlist[1]

\* The command parse_command keeps: `command = cmdlist[0]`, or `command = ''`
\* when the first token holds an "=".
ParseCommandName(cmdlist) ==
    IF Len(Split[cmdlist[1], "="]) > 1 THEN <<>> ELSE cmdlist[1]

\* parse_command after `cmdlist = commandstr.strip().split(' ')`: the dict d,
\* with "command" only when the command is non-empty, or [exc |-> e] when
\* the call raises e.
ParseTokens[cmdlist \in Seq(PyStr), ord \in Seq(Nat)] ==
    LET start   == ParseStartIndex(cmdlist)
        command == ParseCommandName(cmdlist)
        acc     == ParseLoop(ParseStart, cmdlist, start, ord)
    IN  IF acc.exc # "none" THEN [exc |-> acc.exc]
        ELSE IF command # <<>>
        THEN [keys |-> acc.keys, opts |-> acc.opts, command |-> command]
        ELSE [keys |-> acc.keys, opts |-> acc.opts]

\* TS3Proto.parse_command.
parse_command(commandstr, ord) == ParseTokens[Split[Strip[commandstr], " "], ord]

\* Whether a parse_command outcome is a raise.
Raised(d) == "exc" \in DOMAIN d

\* ------------------------------------------------------ construct_command

\* The token construct_command appends for one key: "key=value" for a
\* scalar, the "|"-join of "key=element" for a list (of str or int values).
KeyToken(key, val, ord) ==
    IF val.t = "list"
    THEN Join[[i \in 1..Len(val.v) |-> key \o <<"=">> \o escape_str(val.v[i], ord)],
              <<"|">>]
    ELSE key \o <<"=">> \o escape_str(val, ord)

\* TS3Proto.construct_command.  keys is a dict (EmptyDict for None) and
\* korder the order in which `for key in keys` yields its keys; opts is a
\* sequence (empty for None).
construct_command(command, keys, korder, opts, ord) ==
    Join[<<command>>
         \o [i \in 1..Len(korder) |-> KeyToken(korder[i], keys[korder[i]], ord)]
         \o [i \in 1..Len(opts) |-> <<"-">> \o opts[i]],
         <<" ">>]

\* ------------------------------------------------------------------ state

VARIABLES
    order,      \* the iteration order of ts3_escape in this run
    \* the codec applied to drawn inputs (SpecEscape, SpecParse)
    cpc,        \* "input", "escaped", "unescaped", "parsed"
    value,      \* the value given to _escape_str
    wire,       \* _escape_str(value)
    back,       \* _unescape_str(wire)
    line,       \* the line given to parse_command
    parsed,     \* parse_command(line)
    cmdargs,    \* the arguments given to construct_command
    \* the TS3Proto instance
    connected,  \* self._connected
    sock,       \* self._sock: "unset" (no such attribute), "socket", "None"
    sockfile,   \* self._sockfile: "unset" (no such attribute), "file"
    closed,     \* close() was called on the socket of the current connection
    pc,         \* where the caller is: "idle", "banner", "reading"
    call,       \* the call in progress, or the last one: its name and arguments
    ret,        \* send_command's accumulator
    result,     \* how the last call ended: [kind, val]
    \* the transport and the server behind it
    outq,       \* lines written by the client and not yet consumed by the server
    stream,     \* lines sent by the server and not yet read by the client
    eof,        \* the server has closed the stream
    greeted,    \* the server has sent its greeting on this connection
    \* history of the current call and of the run
    wrote,      \* lines written to the transport during the current call
    readLog,    \* lines read from the transport during the current call
    expect,     \* the server's response to the latest request line
    clean,      \* the server answered every request so far, each written by send_command
    ncalls,     \* calls made so far (bounded by MaxCalls)
    nconnects,  \* connect calls made so far (bounded by MaxConnects)
    \* the class and two instances of it (SpecTwo)
    classAttrs, \* the attributes of the class TS3Proto
    instAttrs,  \* the attributes of each instance (its __dict__)
    actor       \* the last call on an instance: instance, operation, outcome

codecVars == <<cpc, value, wire, back, line, parsed, cmdargs>>
sessionVars == <<connected, sock, sockfile, closed, pc, call, ret, result>>
transportVars == <<outq, stream, eof, greeted>>
historyVars == <<wrote, readLog, expect, clean, ncalls, nconnects>>
classVars == <<classAttrs, instAttrs, actor>>
vars == <<order, codecVars, sessionVars, transportVars, historyVars, classVars>>

\* ------------------------------------------------- the codec on drawn inputs

\* The characters of the values drawn for _escape_str: printable ASCII, with
\* the backslash, the printable literals of ts3_escape and letters that end
\* an escape token; and the line feed, a literal that is not printable.
EscAlphabet == {"\\", " ", "/", "|", "s", "p", "n", "a", "LF"}

\* The values given to _escape_str.
EscValues ==
    {StrV(s) : s \in StringsUpTo(EscAlphabet, MaxLen)}
        \cup {IntV(n) : n \in {0, 7, 10, 255}}

\* The characters of the generated lines given to parse_command.
ParseAlphabet == {"a", "b", "=", " ", "|", "-"}

\* Lines of the protocol's documentation and of the server model.
LineStatusOk ==
    <<"e", "r", "r", "o", "r", " ", "i", "d", "=", "0", " ", "m", "s", "g", "=",
      "o", "k", "LF">>
LineStatusBad ==
    <<"e", "r", "r", "o", "r", " ", "i", "d", "=", "1", " ", "m", "s", "g", "=",
      "b", "a", "d", "LF">>
LineDataEscaped ==
    <<"s", "i", "d", "=", "1", " ", "n", "a", "m", "e", "=", "a", "\\", "s", "b", "LF">>
LineDataNested ==
    <<"c", "i", "d", "=", "1", "|", "c", "i", "d", "=", "2", "LF">>
LineDataOne ==
    <<"s", "i", "d", "=", "2", "LF">>
LineClientsList ==
    <<"s", "i", "d", "=", "1", " ", "n", "a", "m", "e", "=", "t", "e", "s", "t", " ",
      "v", "i", "r", "t", "u", "a", "l", "s", "e", "r", "v", "e", "r", "_",
      "c", "l", "i", "e", "n", "t", "s", "l", "i", "s", "t", "|",
      "s", "i", "d", "=", "2", " ", "n", "a", "m", "e", "=", "f", "o", "o", "LF">>

LineNestedEscaped ==
    <<"c", "i", "d", "=", "1", " ",
      "n", "=", "a", "\\", "s", "b", "|", "n", "=", "c", "LF">>

\* The lines given to parse_command.
ParseLines ==
    {s \o <<"LF">> : s \in StringsUpTo(ParseAlphabet, MaxLineLen)}
        \cup {LineStatusOk, LineStatusBad, LineDataEscaped, LineDataNested,
              LineDataOne, LineClientsList, LineNestedEscaped}

\* construct_command was not called.
NoRequest == [command |-> <<>>, keys |-> EmptyDict, korder |-> <<>>, opts |-> <<>>]

CodecIdle ==
    /\ cpc = "none" /\ value = StrV(<<>>) /\ wire = <<>> /\ back = <<>>
    /\ line = <<>> /\ parsed = EmptyDict /\ cmdargs = NoRequest

\* The instances of SpecTwo.
Instances == {1, 2}

\* The class attributes of TS3Proto: bytesin = 0, bytesout = 0,
\* _connected = False.
ClassInit == ("bytesin" :> 0) @@ ("bytesout" :> 0) @@ ("_connected" :> FALSE)

\* The class as defined and two instances as __init__ leaves them (no
\* attribute of their own but the logger).
ClassIdle ==
    /\ classAttrs = ClassInit
    /\ instAttrs = [i \in Instances |-> EmptyDict]
    /\ actor = [inst |-> 0, op |-> "none", result |-> "none"]

SessionInit ==
    /\ ClassIdle
    /\ connected = FALSE
    /\ sock = "unset"
    /\ sockfile = "unset"
    /\ closed = FALSE
    /\ pc = "idle"
    /\ call = [op |-> "none"]
    /\ ret = <<>>
    /\ result = [kind |-> "none"]
    /\ outq = <<>> /\ stream = <<>> /\ eof = FALSE /\ greeted = FALSE
    /\ wrote = 0 /\ readLog = <<>> /\ expect = <<>> /\ clean = TRUE
    /\ ncalls = 0 /\ nconnects = 0

\* _escape_str and _unescape_str on a drawn value.
InitEscape ==
    /\ order \in TableOrders
    /\ cpc = "input" /\ value \in EscValues /\ wire = <<>> /\ back = <<>>
    /\ line = <<>> /\ parsed = EmptyDict /\ cmdargs = NoRequest
    /\ SessionInit

Escape ==
    /\ cpc = "input"
    /\ wire' = escape_str(value, order)
    /\ cpc' = "escaped"
    /\ UNCHANGED <<order, classVars, value, back, line, parsed, cmdargs, sessionVars, transportVars,
                   historyVars>>

Unescape ==
    /\ cpc = "escaped"
    /\ back' = unescape_str(wire, order)
    /\ cpc' = "unescaped"
    /\ UNCHANGED <<order, classVars, value, wire, line, parsed, cmdargs, sessionVars, transportVars,
                   historyVars>>

NextEscape == Escape \/ Unescape

SpecEscape == InitEscape /\ [][NextEscape]_vars

\* parse_command on a drawn line.
InitParse ==
    /\ order \in TableOrders
    /\ cpc = "input" /\ value = StrV(<<>>) /\ wire = <<>> /\ back = <<>>
    /\ line \in ParseLines /\ parsed = EmptyDict /\ cmdargs = NoRequest
    /\ SessionInit

Parse ==
    /\ cpc = "input"
    /\ parsed' = parse_command(line, order)
    /\ cpc' = "parsed"
    /\ UNCHANGED <<order, classVars, value, wire, back, line, cmdargs, sessionVars, transportVars,
                   historyVars>>

NextParse == Parse

SpecParse == InitParse /\ [][NextParse]_vars

\* ----------------------------------------------------------- codec claims

\* C1: for every string s of printable ASCII characters,
\* _unescape_str(_escape_str(s)) = s.
C1_RoundTrip ==
    (cpc = "unescaped" /\ value.t = "str" /\ \A i \in 1..Len(value.v) : value.v[i] # "LF")
        => back = value.v

\* ------------------------------------------------------------ the session

\* Calls of send, send_command and disconnect in one run.
MaxCalls == 2

\* connect calls in one run.
MaxConnects == 2

\* Data lines in one response of the server.
MaxData == 2

\* The accumulator is kept up to one entry more than a response can hold;
\* a loop that never ends keeps appending and the model stops counting.
MaxRet == MaxData + 1

\* Values a call returns or raises.
NoneV == [t |-> "None"]
BoolV(b) == [t |-> "bool", v |-> b]
Return(v) == [kind |-> "return", val |-> v]
Raise(e) == [kind |-> "raise", val |-> [t |-> "exc", v |-> e]]
Running == [kind |-> "none"]

\* Strings of the source.
StrTS3 == <<"T", "S", "3">>
StrError == <<"e", "r", "r", "o", "r">>
StrId == <<"i", "d">>
StrZero == <<"0">>
StrQuit == <<"q", "u", "i", "t">>

\* The command and the keys of TS3Server.login.
StrLogin == <<"l", "o", "g", "i", "n">>
StrUse == <<"u", "s", "e">>
LoginName ==
    <<"c", "l", "i", "e", "n", "t", "_", "l", "o", "g", "i", "n", "_",
      "n", "a", "m", "e">>
LoginPassword ==
    <<"c", "l", "i", "e", "n", "t", "_", "l", "o", "g", "i", "n", "_",
      "p", "a", "s", "s", "w", "o", "r", "d">>

\* The keys of TS3Server.login for username "a" and password "b".
LoginKeys ==
    DictSet(DictSet(EmptyDict, LoginName, StrV(<<"a">>)),
            LoginPassword, StrV(<<"b">>))

\* The greeting the server sends on a new connection: the banner, the banner
\* with other whitespace around it, and lines that are not the banner.
Greetings ==
    { <<"T", "S", "3", "LF">>,
      <<" ", "T", "S", "3", "CR", "LF">>,
      <<"T", "S", "3", "x", "LF">>,
      <<"S", "S", "H", "LF">> }

\* The data lines and the status lines the server answers with.
DataLines == {LineDataEscaped, LineDataNested}
StatusLines == {LineStatusOk, LineStatusBad}

\* A line that starts with a command other than `error`.
LineNotify == <<"n", "o", "t", "i", "f", "y", " ", "i", "d", "=", "5", "LF">>

\* The responses of the server to a request line: up to MaxData data lines,
\* then one status line; `quit` has no data to answer with.
Responses(request) ==
    {ds \o <<st>> :
        ds \in UNION {[1..n -> DataLines] :
                         n \in 0..(IF request = StrQuit \o <<"LF">> THEN 0 ELSE MaxData)},
        st \in StatusLines}

\* The commands the caller sends: name, keys, opts.
Requests ==
    { [command |-> <<"s", "e", "r", "v", "e", "r", "l", "i", "s", "t">>,
       keys |-> EmptyDict, opts |-> <<>>],
      [command |-> <<"g", "m">>,
       keys |-> DictSet(EmptyDict, <<"m", "s", "g">>, StrV(<<"a", " ", "b">>)),
       opts |-> <<>>],
      [command |-> <<"u", "s", "e">>,
       keys |-> DictSet(EmptyDict, <<"s", "i", "d">>, IntV(1)),
       opts |-> << <<"v">> >>] }

\* The hosts and ports connect is called with.
Hosts == {"10.0.0.1", "10.0.0.2"}
Ports == {10011, 10012}

\* The orders in which `for key in keys` can yield the keys of a dict.
KeyOrders(keys) ==
    {ko \in [1..Cardinality(DOMAIN keys) -> DOMAIN keys] :
        \A i, j \in DOMAIN ko : ko[i] = ko[j] => i = j}

\* self._sockfile.readline(): a line is there, or the stream is at its end;
\* otherwise the call blocks.
CanRead == stream # <<>> \/ eof
ReadLineValue == IF stream # <<>> THEN Head(stream) ELSE <<>>
AfterRead == IF stream # <<>> THEN Tail(stream) ELSE stream
Logged == IF stream # <<>> THEN Append(readLog, Head(stream)) ELSE readLog

\* connect(ip, port): the socket opens or s.connect raises; the except
\* clause re-raises what it caught (raise ConnectionError is commented out).
Connect(ip, port) ==
    /\ pc = "idle"
    /\ nconnects < MaxConnects
    /\ nconnects' = nconnects + 1
    /\ call' = [op |-> "connect", ip |-> ip, port |-> port, connected |-> connected]
    /\ wrote' = 0 /\ readLog' = <<>> /\ expect' = <<>>
    /\ \E opened \in BOOLEAN :
          IF opened
          THEN /\ sock' = "socket" /\ sockfile' = "file" /\ closed' = FALSE
               /\ outq' = <<>> /\ stream' = <<>> /\ eof' = FALSE /\ greeted' = FALSE
               /\ clean' = TRUE
               /\ pc' = "banner"
               /\ result' = Running
          ELSE /\ result' = Raise("socket.error")
               /\ UNCHANGED <<sock, sockfile, closed, transportVars, clean, pc>>
    /\ UNCHANGED <<order, classVars, codecVars, connected, ret, ncalls>>

\* A test of the greeting without strip(): data == "TS3".
BannerOkUntrimmed(data) == data = StrTS3

\* connect's test of the greeting: data.strip() == "TS3".
BannerOk(data) == Strip[data] = StrTS3

\* connect, from `data = self._sockfile.readline()` to its end.
ConnectBanner ==
    /\ pc = "banner"
    /\ CanRead
    /\ stream' = AfterRead
    /\ readLog' = Logged
    /\ IF BannerOk(ReadLineValue)
       THEN connected' = TRUE /\ result' = Return(BoolV(TRUE))
       ELSE connected' = connected /\ result' = Return(NoneV)
    /\ pc' = "idle"
    /\ UNCHANGED <<order, classVars, codecVars, sock, sockfile, closed, call, ret, outq, eof,
                   greeted, wrote, expect, clean, ncalls, nconnects>>

\* send(payload), as send_command calls it: what it leaves in outq.
SendTo(q, payload) == IF connected THEN Append(q, payload) ELSE q

\* send(payload) called by the user of the class.
Send(payload) ==
    /\ pc = "idle"
    /\ ncalls < MaxCalls
    /\ ncalls' = ncalls + 1
    /\ call' = [op |-> "send", payload |-> payload, connected |-> connected]
    /\ outq' = SendTo(outq, payload)
    /\ wrote' = Len(outq') - Len(outq)
    /\ clean' = (clean /\ ~connected)
    /\ readLog' = <<>> /\ expect' = <<>>
    /\ result' = Return(NoneV)
    /\ UNCHANGED <<order, classVars, codecVars, connected, sock, sockfile, closed, pc, ret,
                   stream, eof, greeted, nconnects>>

\* send_command up to its first readline: the command is built and sent, ret
\* is emptied, and self._sockfile is looked up (AttributeError when the
\* instance never had one).
SendCommandStart(c, cmd) ==
    /\ pc = "idle"
    /\ ncalls < MaxCalls
    /\ ncalls' = ncalls + 1
    /\ call' = c
    /\ outq' = SendTo(outq, cmd \o <<"LF">>)
    /\ wrote' = Len(outq') - Len(outq)
    /\ ret' = <<>>
    /\ readLog' = <<>> /\ expect' = <<>>
    /\ IF sockfile = "unset"
       THEN pc' = "idle" /\ result' = Raise("AttributeError")
       ELSE pc' = "reading" /\ result' = Running
    /\ UNCHANGED <<order, classVars, codecVars, connected, sock, sockfile, closed, stream, eof,
                   greeted, clean, nconnects>>

\* send_command(command, keys, opts) is called.
SendCommand(r, ko) ==
    SendCommandStart(
        [op |-> "send_command", command |-> r.command, keys |-> r.keys,
         opts |-> r.opts, connected |-> connected],
        construct_command(r.command, r.keys, ko, r.opts, order))

\* disconnect() is called: it starts with self.send_command("quit").
Disconnect ==
    SendCommandStart(
        [op |-> "disconnect", connected |-> connected],
        construct_command(StrQuit, EmptyDict, <<>>, <<>>, order))

\* An accumulator that grows at the front: ret.insert(0, resp['keys']).
AccumulateFront(r, keys) == IF Len(r) < MaxRet THEN <<keys>> \o r ELSE r

\* login(username, password) is called.  Its command is sent through the
\* module global `p`: the instance itself when the module runs as a script,
\* a NameError when no such global is bound.
Login(bound, ko) ==
    IF bound
    THEN SendCommandStart(
             [op |-> "login", connected |-> connected],
             construct_command(StrLogin, LoginKeys, ko, <<>>, order))
    ELSE /\ pc = "idle"
         /\ ncalls < MaxCalls
         /\ ncalls' = ncalls + 1
         /\ call' = [op |-> "login", connected |-> connected]
         /\ wrote' = 0 /\ readLog' = <<>> /\ expect' = <<>>
         /\ result' = Raise("NameError")
         /\ UNCHANGED <<order, classVars, codecVars, connected, sock, sockfile,
                        closed, pc, ret, transportVars, clean, nconnects>>

\* ret.append(resp['keys']).
Accumulate(r, keys) == IF Len(r) < MaxRet THEN Append(r, keys) ELSE r

\* A send_command that returns ret whenever it is non-empty, whatever the id.
ResolveIgnoringId(r, resp) ==
    IF resp.command = StrError
    THEN IF r # <<>> THEN Return([t |-> "list", v |-> r])
         ELSE Return(resp.keys[StrId])
    ELSE Return(NoneV)

\* A send_command that returns ret when the last line is not `error`.
ResolveKeepingData(r, resp) ==
    IF resp.command = StrError
    THEN IF StrId \notin DOMAIN resp.keys THEN Raise("KeyError")
         ELSE IF r # <<>> /\ resp.keys[StrId] = StrV(StrZero)
              THEN Return([t |-> "list", v |-> r])
              ELSE Return(resp.keys[StrId])
    ELSE Return([t |-> "list", v |-> r])

\* send_command after its loop: what it returns or raises for the parsed
\* status line resp and the accumulated ret.
Resolve(r, resp) ==
    IF resp.command = StrError
    THEN IF StrId \notin DOMAIN resp.keys THEN Raise("KeyError")
         ELSE IF r # <<>> /\ resp.keys[StrId] = StrV(StrZero)
              THEN Return([t |-> "list", v |-> r])
              ELSE Return(resp.keys[StrId])
    ELSE Return(NoneV)

\* Python 2's `d > n` and `d == n` for an int n and the values send_command
\* returns: values of different types are ordered by the name of their type
\* (None below everything, "list" and "str" above "int") and are never equal.
GreaterThanInt(d, n) ==
    CASE d.t = "int" -> d.v > n
      [] d.t \in {"str", "list"} -> TRUE
      [] OTHER -> FALSE
EqualsInt(d, n) == d.t = "int" /\ d.v = n

\* TS3Server.login after `d = p.send_command('login', ...)`.
LoginReturn(d) ==
    IF GreaterThanInt(d, 0) THEN Return(BoolV(FALSE))
    ELSE IF EqualsInt(d, 0) THEN Return(BoolV(TRUE))
    ELSE Return(NoneV)

\* How the call in progress ends once send_command ends with `outcome`:
\* send_command hands it to its caller; disconnect lets a raise through, and
\* otherwise closes the socket, clears the handle and the flag; login turns
\* what send_command returned into its own return value.  The fields
\* are the values of pc, ret, result, closed, sock and connected afterwards.
Finish(outcome) ==
    IF call.op = "disconnect" /\ outcome.kind = "return"
    THEN IF sock = "socket"
         THEN [pc |-> "idle", ret |-> ret, result |-> Return(NoneV),
               closed |-> TRUE, sock |-> "None", connected |-> FALSE]
         ELSE [pc |-> "idle", ret |-> ret, result |-> Raise("AttributeError"),
               closed |-> closed, sock |-> sock, connected |-> connected]
    ELSE IF call.op = "login" /\ outcome.kind = "return"
    THEN [pc |-> "idle", ret |-> ret, result |-> LoginReturn(outcome.val),
          closed |-> closed, sock |-> sock, connected |-> connected]
    ELSE [pc |-> "idle", ret |-> ret, result |-> outcome,
          closed |-> closed, sock |-> sock, connected |-> connected]

\* A loop that ends on the first line read, with or without 'command'.
LoopStepOnce(resp) ==
    IF Raised(resp) THEN Finish(Raise(resp.exc))
    ELSE IF "command" \notin DOMAIN resp THEN Finish(Return(NoneV))
    ELSE Finish(Resolve(ret, resp))

\* One iteration of send_command's `while True` on the line read: a line
\* without 'command' is accumulated, any other ends the loop; a raise of
\* parse_command ends the call.
LoopStep(resp) ==
    IF Raised(resp) THEN Finish(Raise(resp.exc))
    ELSE IF "command" \notin DOMAIN resp
    THEN [pc |-> "reading", ret |-> Accumulate(ret, resp.keys), result |-> result,
          closed |-> closed, sock |-> sock, connected |-> connected]
    ELSE Finish(Resolve(ret, resp))

\* send_command reads a line and runs one iteration of its loop on it.
ReadLine ==
    /\ pc = "reading"
    /\ CanRead
    /\ stream' = AfterRead
    /\ readLog' = Logged
    /\ \E after \in {LoopStep(parse_command(ReadLineValue, order))} :
           /\ pc' = after.pc
           /\ ret' = after.ret
           /\ result' = after.result
           /\ closed' = after.closed
           /\ sock' = after.sock
           /\ connected' = after.connected
    /\ UNCHANGED <<order, classVars, codecVars, sockfile, call, outq, eof, greeted, wrote,
                   expect, clean, ncalls, nconnects>>

\* The server sends its greeting on a new connection.
ServerGreet ==
    /\ sockfile = "file" /\ ~greeted /\ ~eof
    /\ \E g \in Greetings : stream' = Append(stream, g)
    /\ greeted' = TRUE
    /\ UNCHANGED <<order, classVars, codecVars, sessionVars, outq, eof, historyVars>>

\* The server answers the oldest request line: data lines, then a status line.
ServerRespond ==
    /\ outq # <<>> /\ ~eof
    /\ \E resp \in Responses(Head(outq)) :
          /\ stream' = stream \o resp
          /\ expect' = resp
    /\ outq' = Tail(outq)
    /\ UNCHANGED <<order, classVars, codecVars, sessionVars, eof, greeted, wrote, readLog,
                   clean, ncalls, nconnects>>

\* The server answers the oldest request line with data lines and then a line
\* that starts with a command other than `error`.
ServerEvent ==
    /\ outq # <<>> /\ ~eof
    /\ \E ds \in UNION {[1..n -> DataLines] :
                         n \in 0..(IF Head(outq) = StrQuit \o <<"LF">> THEN 0 ELSE MaxData)} :
          stream' = stream \o ds \o <<LineNotify>>
    /\ outq' = Tail(outq)
    /\ clean' = FALSE
    /\ UNCHANGED <<order, classVars, codecVars, sessionVars, eof, greeted, wrote,
                   readLog, expect, ncalls, nconnects>>

\* The server takes the oldest request line and answers nothing.
ServerSilent ==
    /\ outq # <<>> /\ ~eof
    /\ outq' = Tail(outq)
    /\ clean' = FALSE
    /\ UNCHANGED <<order, classVars, codecVars, sessionVars, stream, eof, greeted, wrote,
                   readLog, expect, ncalls, nconnects>>

\* The server closes the stream.
ServerClose ==
    /\ sockfile = "file" /\ ~eof
    /\ eof' = TRUE
    /\ clean' = FALSE
    /\ UNCHANGED <<order, classVars, codecVars, sessionVars, outq, stream, greeted, wrote,
                   readLog, expect, ncalls, nconnects>>

Init ==
    /\ order \in TableOrders
    /\ CodecIdle
    /\ SessionInit

Next ==
    \/ \E ip \in Hosts, port \in Ports : Connect(ip, port)
    \/ ConnectBanner
    \/ \E r \in Requests : \E ko \in KeyOrders(r.keys) : SendCommand(r, ko)
    \/ Send(StrQuit \o <<"LF">>)
    \/ Disconnect
    \/ \E bound \in BOOLEAN, ko \in KeyOrders(LoginKeys) : Login(bound, ko)
    \/ ReadLine
    \/ ServerGreet
    \/ ServerRespond
    \/ ServerEvent
    \/ ServerSilent
    \/ ServerClose

Spec == Init /\ [][Next]_vars

\* The caller's steps are taken when they can be (a call that can go on
\* does), and a request line that reaches the server is dealt with.
Fairness ==
    /\ WF_vars(ConnectBanner)
    /\ WF_vars(ReadLine)
    /\ WF_vars(ServerGreet)
    /\ WF_vars(ServerRespond)

FairSpec == Init /\ [][Next]_vars /\ Fairness

\* --------------------------------------------------------- session claims

\* A send_command call made by the caller has ended.
SendCommandEnded ==
    pc = "idle" /\ call.op = "send_command" /\ result.kind # "none"

\* The last line read in the current call, parsed.
LastRead == parse_command(readLog[Len(readLog)], order)

\* The current call ended on a status line `error` that carries an id.
EndedOnStatus ==
    /\ SendCommandEnded
    /\ readLog # <<>>
    /\ ~Raised(LastRead)
    /\ "command" \in DOMAIN LastRead
    /\ LastRead.command = StrError
    /\ StrId \in DOMAIN LastRead.keys

\* C2 (framing): a send_command call on a connected session, with a server
\* that has answered every request line by data lines and one status line,
\* has written exactly one line, has read exactly the lines of the response
\* to that line, and has left nothing of it (and nothing else) unread.
C2_Framing ==
    (SendCommandEnded /\ call.connected /\ clean) =>
        /\ result.kind = "return"
        /\ wrote = 1
        /\ outq = <<>>
        /\ expect # <<>>
        /\ readLog = expect
        /\ stream = <<>>

\* C2 (return): such a call, once it is reading, returns.
C2_Returns ==
    (pc = "reading" /\ call.op = "send_command" /\ call.connected /\ clean)
        ~> (pc = "idle" \/ ~clean)

\* C2: for a connected session and a server that answers every request line
\* with zero or more data lines and exactly one status line, the k-th
\* send_command writes one request line, reads exactly the lines of the k-th
\* response up to and including its status line, and returns.
C2_RequestCycle == []C2_Framing /\ C2_Returns

\* C2's case: the second call of a run has read a response of three lines.
C2_Witness ==
    /\ SendCommandEnded /\ call.connected /\ clean
    /\ ncalls = 2
    /\ Len(readLog) = 3

\* C3: when n >= 1 data lines and then a status line `error` with id "0" were
\* received, send_command returns the sequence of exactly n key-mappings, the
\* i-th being the parsed keys of the i-th data line received.
C3_PayloadInOrder ==
    (EndedOnStatus /\ Len(readLog) >= 2 /\ LastRead.keys[StrId] = StrV(StrZero)) =>
        result = Return([t |-> "list",
                         v |-> [i \in 1..(Len(readLog) - 1) |->
                                   parse_command(readLog[i], order).keys]])

\* C3's case: two different data lines, then `error id=0 msg=ok`; the first
\* mapping returned holds the unescaped name of the first line.
C3_Witness ==
    /\ EndedOnStatus
    /\ readLog = <<LineDataEscaped, LineDataNested, LineStatusOk>>
    /\ result.kind = "return"
    /\ result.val.t = "list"
    /\ Len(result.val.v) = 2
    /\ result.val.v[1][<<"n", "a", "m", "e">>] = StrV(<<"a", " ", "b">>)

\* C4: when the status line carries an id other than "0", send_command
\* returns that id string, with or without data lines before it, and does not
\* raise; when the id is "0" and no data line was received, it returns "0".
C4_StatusId ==
    EndedOnStatus =>
        /\ LastRead.keys[StrId] # StrV(StrZero) => result = Return(LastRead.keys[StrId])
        /\ (LastRead.keys[StrId] = StrV(StrZero) /\ Len(readLog) = 1)
               => result = Return(StrV(StrZero))

\* C4's case: a data line, then `error id=1 msg=bad`, and "1" is returned.
C4_Witness ==
    /\ EndedOnStatus
    /\ readLog = <<LineDataNested, LineStatusBad>>
    /\ result = Return(StrV(<<"1">>))

\* C5: a command sent while connected is false, through send or through
\* send_command, writes nothing to the transport and does not raise.
C5_NoWriteNoRaise ==
    (pc = "idle" /\ call.op \in {"send", "send_command"} /\ ~call.connected) =>
        (wrote = 0 /\ result.kind # "raise")

\* A connect call that opened the socket has ended.
ConnectEnded ==
    pc = "idle" /\ call.op = "connect" /\ result.kind = "return"

\* The line connect read: the greeting, or '' when the stream ended first.
BannerRead == IF readLog = <<>> THEN <<>> ELSE readLog[1]

\* The greeting, trimmed by hand: "TS3" between whitespace characters only.
IsTS3Banner(data) ==
    \E i \in 1..Len(data) :
        /\ i + 2 <= Len(data)
        /\ data[i] = "T" /\ data[i + 1] = "S" /\ data[i + 2] = "3"
        /\ \A j \in 1..Len(data) : j \in {i, i + 1, i + 2} \/ data[j] \in Whitespace

\* What C6 says of a connect that ended, apart from the flag.
C6_OneLineNoRaise ==
    /\ Len(readLog) <= 1
    /\ stream = <<>>
    /\ IsTS3Banner(BannerRead) => result = Return(BoolV(TRUE))
    /\ ~IsTS3Banner(BannerRead) =>
           (result = Return(NoneV) /\ sock = "socket" /\ ~closed)

\* C6 as stated: after connect opens the socket it reads one line, and
\* connected is true afterwards if and only if that line, trimmed, is TS3;
\* on another banner connect does not raise, leaves the socket open, leaves
\* connected false and does not return success.
C6_BannerIff ==
    ConnectEnded => (C6_OneLineNoRaise /\ (connected <=> IsTS3Banner(BannerRead)))

\* C6 as amended: the same, for a connect called while connected is false;
\* a connect called while connected is true leaves it true on any banner.
C6_BannerIffFromDisconnected ==
    ConnectEnded =>
        /\ C6_OneLineNoRaise
        /\ ~call.connected => (connected <=> IsTS3Banner(BannerRead))
        /\ call.connected => connected

\* C6's cases: a greeting with whitespace around TS3 was accepted.
C6_Witness ==
    /\ ConnectEnded /\ ~call.connected
    /\ readLog = << <<" ", "T", "S", "3", "CR", "LF">> >>
    /\ connected

\* C7: when the socket cannot be opened, connect raises a ConnectionError
\* that carries the host and port it was called with, and the session stays
\* disconnected: connected false, no socket handle stored, no banner read.
C7_ConnectionFailure ==
    (pc = "idle" /\ call.op = "connect" /\ result.kind = "raise") =>
        /\ result.val.v = "ConnectionError"
        /\ result.val.ip = call.ip /\ result.val.port = call.port
        /\ ~call.connected => (~connected /\ sock = "unset" /\ readLog = <<>>)

\* C8: disconnect called on a connected session sends one `quit` line and
\* then reaches the disconnected state (socket closed, handle cleared,
\* connected false), whatever the server does with `quit`.
C8_DisconnectReaches ==
    (call.op = "disconnect" /\ call.connected /\ pc = "reading")
        ~> (pc = "idle" /\ wrote = 1 /\ closed /\ sock = "None" /\ ~connected)

\* ------------------------------------------------- parse_command claims

\* Whether the character c occurs in s.
HasChar(s, c) == \E i \in 1..Len(s) : s[i] = c

\* The text of s before its first c (all of s when c does not occur).
Before(s, c) ==
    LET stops == {i \in 1..Len(s) : s[i] = c}
    IN  IF stops = {} THEN s
        ELSE SubSeq(s, 1, (CHOOSE i \in stops : \A j \in stops : i <= j) - 1)

\* The text of s after its last c (all of s when c does not occur).
AfterLast(s, c) ==
    LET stops == {i \in 1..Len(s) : s[i] = c}
    IN  IF stops = {} THEN s
        ELSE SubSeq(s, (CHOOSE i \in stops : \A j \in stops : i >= j) + 1, Len(s))

\* The tokens of the line given to parse_command, and the first of them.
LineTokens == Split[Strip[line], " "]
FirstToken == LineTokens[1]

\* A token that is an opt: no "|", no "=", and a leading "-".
IsOptToken(t) == ~HasChar(t, "|") /\ ~HasChar(t, "=") /\ t # <<>> /\ t[1] = "-"

\* The tokens from index `from` on were scanned into d: each token with an
\* "=" gave a key (for a "|" token, the key of its last piece), and the opts
\* are the "-" tokens, in order, without the "-".
ScannedFrom(d, from) ==
    LET rest == SubSeq(LineTokens, from, Len(LineTokens))
        optTokens == SelectSeq(rest, IsOptToken)
    IN  /\ DOMAIN d.keys =
               {Before(AfterLast(rest[i], "|"), "=") :
                    i \in {j \in 1..Len(rest) : HasChar(rest[j], "=")}}
        /\ d.opts = [i \in 1..Len(optTokens) |-> Tail(optTokens[i])]

\* The result the documentation gives for `error id=0 msg=ok`.
StatusOkParsed ==
    [command |-> StrError,
     keys |-> DictSet(DictSet(EmptyDict, StrId, StrV(StrZero)),
                      <<"m", "s", "g">>, StrV(<<"o", "k">>)),
     opts |-> <<>>]

WellFormedNested(t) ==
    LET pieces == Split[t, "|"]
    IN  /\ Len(pieces) > 1
        /\ \A i \in 1..Len(pieces) :
               /\ Cardinality({j \in 1..Len(pieces[i]) : pieces[i][j] = "="}) = 1
               /\ Before(pieces[i], "=") = Before(pieces[1], "=")

\* The values of the pieces of a "|" token, in order.
NestedValues(t) ==
    LET pieces == Split[t, "|"]
    IN  [i \in 1..Len(pieces) |-> AfterLast(pieces[i], "=")]

\* C10: parse_command on a pure-data line with a "|"-joined token returns a
\* record without `command` in which the values of that token are collected,
\* in order, as a sequence under the shared key; it does so for the line
\* `sid=1 name=test virtualserver_clientslist|sid=2 name=foo`.
C10_NestedCollected ==
    (cpc = "parsed" /\ HasChar(FirstToken, "=")) =>
        /\ ~Raised(parsed) =>
               /\ "command" \notin DOMAIN parsed
               /\ \A i \in 1..Len(LineTokens) :
                      (/\ WellFormedNested(LineTokens[i])
                       /\ \A j \in (i + 1)..Len(LineTokens) :
                              Before(AfterLast(LineTokens[j], "|"), "=")
                                  # Before(LineTokens[i], "="))
                          => /\ Before(LineTokens[i], "=") \in DOMAIN parsed.keys
                             /\ parsed.keys[Before(LineTokens[i], "=")]
                                    = ListV(NestedValues(LineTokens[i]))
        /\ line = LineClientsList =>
               /\ ~Raised(parsed)
               /\ "command" \notin DOMAIN parsed
               /\ <<"s", "i", "d">> \in DOMAIN parsed.keys
               /\ parsed.keys[<<"s", "i", "d">>].t = "list"


\* C11: parse_command never raises, whatever the line: a token that matches
\* no rule (an empty token between two spaces, a bare word, a "|" piece
\* without "=") is skipped.
C11_ParseNeverRaises ==
    cpc = "parsed" => ~Raised(parsed)


\* --------------------------------- construct_command on drawn arguments

\* Longest string value given to construct_command in SpecConstruct.
MaxValLen == 2

\* The characters of the string values given to construct_command.
ConstructAlphabet == {"x", "=", "\\", "s", " ", "|"}

\* Key names, command names and opts of the calls drawn.
KeyOne == <<"k">>
KeyTwo == <<"n">>
ConstructOpts == { <<>>, << <<"v">> >>, << <<"v">>, <<"a", "l", "l">> >> }

\* The values of the first key: strings, an int, lists of str and int
\* elements (the empty list among them); and those of the second key.
ConstructValues ==
    {StrV(s) : s \in StringsUpTo(ConstructAlphabet, MaxValLen)}
        \cup {IntV(12)}
        \cup {ListV(<<>>), ListV(<<StrV(<<"x">>)>>),
              ListV(<<StrV(<<"x", " ", "y">>), IntV(3)>>)}
SecondValues == {StrV(<<"y">>), ListV(<<StrV(<<"y">>), StrV(<<"z">>)>>)}

\* The keys arguments: None or {}, one key, two keys.
ConstructKeys ==
    {EmptyDict}
        \cup {DictSet(EmptyDict, KeyOne, v) : v \in ConstructValues}
        \cup {DictSet(DictSet(EmptyDict, KeyOne, v), KeyTwo, w) :
                 v \in ConstructValues, w \in SecondValues}

\* The calls of construct_command: command, keys, the order in which
\* `for key in keys` yields the keys in this call, and opts.
ConstructRequests ==
    UNION {{[command |-> c, keys |-> k, korder |-> ko, opts |-> o] :
               c \in {StrLogin, StrUse}, ko \in KeyOrders(k), o \in ConstructOpts} :
           k \in ConstructKeys}
        \cup {[command |-> StrLogin, keys |-> LoginKeys, korder |-> ko, opts |-> <<>>] :
                 ko \in KeyOrders(LoginKeys)}

InitConstruct ==
    /\ order \in TableOrders
    /\ cpc = "input" /\ value = StrV(<<>>) /\ wire = <<>> /\ back = <<>>
    /\ line = <<>> /\ parsed = EmptyDict /\ cmdargs \in ConstructRequests
    /\ SessionInit

\* construct_command on the drawn arguments.
Construct ==
    /\ cpc = "input"
    /\ line' = construct_command(cmdargs.command, cmdargs.keys, cmdargs.korder,
                                 cmdargs.opts, order)
    /\ cpc' = "constructed"
    /\ UNCHANGED <<order, classVars, value, wire, back, parsed, cmdargs, sessionVars,
                   transportVars, historyVars>>

\* parse_command on the line construct_command returned.
ParseConstructed ==
    /\ cpc = "constructed"
    /\ parsed' = parse_command(line, order)
    /\ cpc' = "parsed"
    /\ UNCHANGED <<order, classVars, value, wire, back, line, cmdargs, sessionVars,
                   transportVars, historyVars>>

NextConstruct == Construct \/ ParseConstructed

SpecConstruct == InitConstruct /\ [][NextConstruct]_vars

\* ------------------------------------------------ construct_command claims

\* The keys given to construct_command all have string values.
StringValuesOnly == \A k \in DOMAIN cmdargs.keys : cmdargs.keys[k].t = "str"

\* C12: for every command name, every mapping of keys to non-nested string
\* values and every list of opts, parse_command(construct_command(name, keys,
\* opts)) has the same command name and, for every key, the value that was
\* given to construct_command.
C12_ParseConstructRoundTrip ==
    (cpc = "parsed" /\ StringValuesOnly) =>
        /\ ~Raised(parsed)
        /\ "command" \in DOMAIN parsed
        /\ parsed.command = cmdargs.command
        /\ \A k \in DOMAIN cmdargs.keys :
               k \in DOMAIN parsed.keys /\ parsed.keys[k] = cmdargs.keys[k]


\* The text of the int values drawn, digit by digit.
IntText(n) ==
    CASE n = 0 -> <<"0">>
      [] n = 1 -> <<"1">>
      [] n = 3 -> <<"3">>
      [] n = 7 -> <<"7">>
      [] n = 10 -> <<"1", "0">>
      [] n = 12 -> <<"1", "2">>
      [] n = 255 -> <<"2", "5", "5">>

\* The encoding of one character: a backslash is doubled, a literal of the
\* escape table becomes its token, any other character stays.
EncodeChar(c) ==
    IF c = "\\" THEN <<"\\", "\\">>
    ELSE IF \E i \in 1..Len(ts3_escape) : ts3_escape[i][1] = c
    THEN ts3_escape[CHOOSE i \in 1..Len(ts3_escape) : ts3_escape[i][1] = c][2]
    ELSE <<c>>

\* The concatenation of the strings of a sequence.
Concat[pieces \in Seq(PyStr)] ==
    IF Len(pieces) = 0 THEN <<>> ELSE pieces[1] \o Concat[Tail(pieces)]

\* The character-by-character encoding of a string or int value.
EncodeValue(val) ==
    IF val.t = "int" THEN IntText(val.v)
    ELSE Concat[[i \in 1..Len(val.v) |-> EncodeChar(val.v[i])]]

\* The token for one key: `key=value`, or the `key=element` of a list with a
\* "|" before each but the first (no character at all for the empty list).
ExpectedToken(key, val) ==
    IF val.t = "list"
    THEN Concat[[i \in 1..Len(val.v) |->
                    (IF i = 1 THEN <<>> ELSE <<"|">>)
                        \o key \o <<"=">> \o EncodeValue(val.v[i])]]
    ELSE key \o <<"=">> \o EncodeValue(val)

\* The line for the drawn arguments: the name, then a space and a token per
\* key in the mapping's order, then a space and `-opt` per opt.
ExpectedLine ==
    cmdargs.command
        \o Concat[[i \in 1..Len(cmdargs.korder) |->
                      <<" ">> \o ExpectedToken(cmdargs.korder[i],
                                               cmdargs.keys[cmdargs.korder[i]])]]
        \o Concat[[i \in 1..Len(cmdargs.opts) |-> <<" ", "-">> \o cmdargs.opts[i]]]

\* `login client_login_name=a client_login_password=b`.
LoginLine ==
    StrLogin \o <<" ">> \o LoginName \o <<"=", "a", " ">>
        \o LoginPassword \o <<"=", "b">>

\* C13: construct_command(name, keys, opts) returns the tokens joined by
\* single spaces: the name; per key in the mapping's order `key=escape(value)`
\* or the "|"-join of `key=escape(element)` (the empty token for an empty
\* list); then `-opt` per opt.  With keys client_login_name=a,
\* client_login_password=b and no opts the result is
\* `login client_login_name=a client_login_password=b`.
C13_ConstructFormat ==
    cpc \in {"constructed", "parsed"} =>
        /\ line = ExpectedLine
        /\ (cmdargs.command = StrLogin /\ cmdargs.keys = LoginKeys /\ cmdargs.opts = <<>>)
               => line = LoginLine


\* ------------------------------------------------------ _escape_str claims

\* C14: _escape_str of an integer is its decimal string; _escape_str of a
\* string is the character-by-character encoding (each backslash doubled,
\* each literal of the escape table replaced by its token, every other
\* character unchanged), whatever the order in which the table entries are
\* applied.
C14_EscapeCharByChar ==
    cpc \in {"escaped", "unescaped"} => wire = EncodeValue(value)

\* C14's case: a backslash, a space and a slash were escaped with the table
\* applied in reverse order.
C14_Witness ==
    /\ cpc = "escaped"
    /\ order = <<10, 9, 8, 7, 6, 5, 4, 3, 2, 1>>
    /\ value = StrV(<<"\\", " ", "/">>)
    /\ wire = <<"\\", "\\", "\\", "s", "\\", "/">>


\* ------------------------------------------- parse_command claims, tokens

\* The text of s after its first c.
AfterFirst(s, c) == SubSeq(s, Len(Before(s, c)) + 2, Len(s))

\* The indexes of the tokens parse_command scans on this line.
ScannedIndexes ==
    {i \in 1..Len(LineTokens) : i > 1 \/ HasChar(FirstToken, "=")}

\* The key a token is stored under, and whether token i is the last one
\* scanned with its key.
TokenKey(t) == Before(AfterLast(t, "|"), "=")
LastWithKey(i) ==
    \A j \in ScannedIndexes :
        (j > i /\ HasChar(LineTokens[j], "=")) => TokenKey(LineTokens[j]) # TokenKey(LineTokens[i])

\* C15: for a token with "=" and without "|", parse_command splits on the
\* first "=" only: the key is the text before it, and the value stored is the
\* unescaped form of everything after it, further "=" included.
C15_SplitOnFirstEquals ==
    (cpc = "parsed" /\ ~Raised(parsed)) =>
        \A i \in ScannedIndexes :
            (/\ HasChar(LineTokens[i], "=")
             /\ ~HasChar(LineTokens[i], "|")
             /\ LastWithKey(i))
                => /\ Before(LineTokens[i], "=") \in DOMAIN parsed.keys
                   /\ parsed.keys[Before(LineTokens[i], "=")]
                          = StrV(unescape_str(AfterFirst(LineTokens[i], "="), order))


\* C16: for a token with "|", every value collected into the sequence is
\* unescaped as a scalar value would be: `\s` in a nested piece appears in
\* the result as a space.
C16_NestedUnescaped ==
    (cpc = "parsed" /\ ~Raised(parsed)) =>
        \A i \in ScannedIndexes :
            (WellFormedNested(LineTokens[i]) /\ LastWithKey(i))
                => /\ TokenKey(LineTokens[i]) \in DOMAIN parsed.keys
                   /\ parsed.keys[TokenKey(LineTokens[i])]
                          = ListV([j \in 1..Len(NestedValues(LineTokens[i])) |->
                                      unescape_str(NestedValues(LineTokens[i])[j], order)])


\* ------------------------------------------------ two instances of TS3Proto

\* A class dict and the __dict__ of one instance, together.
Object(cls, inst) == [cls |-> cls, inst |-> inst]

\* An assignment that lands on the class: TS3Proto.name = v.
SetAttrOnClass(obj, name, v) == Object(DictSet(obj.cls, name, v), obj.inst)

\* self.name = v: the attribute is set on the instance.
SetAttr(obj, name, v) == Object(obj.cls, DictSet(obj.inst, name, v))

\* self.name: looked up on the instance, then on the class.
HasAttr(obj, name) == name \in DOMAIN obj.inst \/ name \in DOMAIN obj.cls
GetAttr(obj, name) ==
    IF name \in DOMAIN obj.inst THEN obj.inst[name] ELSE obj.cls[name]

\* connect on obj: the attributes afterwards, when the socket opened or not
\* and for the greeting read.
ConnectAttrs(obj, opened, banner) ==
    IF ~opened THEN obj
    ELSE LET withFile == SetAttr(SetAttr(obj, "_sock", "socket"), "_sockfile", "file")
         IN  IF BannerOk(banner) THEN SetAttr(withFile, "_connected", TRUE)
             ELSE withFile

\* How send_command on obj ends: AttributeError without self._sockfile,
\* a return when the server answers with a status line, no end otherwise.
SendCommandOutcome(obj, answered) ==
    IF ~HasAttr(obj, "_sockfile") THEN "AttributeError"
    ELSE IF answered THEN "return" ELSE "blocked"

\* How disconnect on obj ends: as send_command("quit") when that does not
\* return, AttributeError at self._sock.close() when the handle is None.
DisconnectOutcome(obj, answered) ==
    IF SendCommandOutcome(obj, answered) # "return"
    THEN SendCommandOutcome(obj, answered)
    ELSE IF GetAttr(obj, "_sock") # "socket" THEN "AttributeError"
    ELSE "return"

\* disconnect on obj: the attributes afterwards.
DisconnectAttrs(obj, answered) ==
    IF DisconnectOutcome(obj, answered) # "return" THEN obj
    ELSE SetAttr(SetAttr(obj, "_sock", "None"), "_connected", FALSE)

\* A call on instance i that leaves the attributes `after` and ends as outcome.
TwoCall(i, op, after, outcome) ==
    /\ classAttrs' = after.cls
    /\ instAttrs' = [instAttrs EXCEPT ![i] = after.inst]
    /\ actor' = [inst |-> i, op |-> op, result |-> outcome]
    /\ UNCHANGED <<order, codecVars, sessionVars, transportVars, historyVars>>

\* connect(ip, port) on instance i.
TwoConnect(i, opened, banner) ==
    TwoCall(i, "connect",
            ConnectAttrs(Object(classAttrs, instAttrs[i]), opened, banner),
            IF opened THEN "return" ELSE "socket.error")

\* send_command on instance i: it sets no attribute.
TwoSendCommand(i, answered) ==
    TwoCall(i, "send_command", Object(classAttrs, instAttrs[i]),
            SendCommandOutcome(Object(classAttrs, instAttrs[i]), answered))

\* disconnect() on instance i.
TwoDisconnect(i, answered) ==
    TwoCall(i, "disconnect",
            DisconnectAttrs(Object(classAttrs, instAttrs[i]), answered),
            DisconnectOutcome(Object(classAttrs, instAttrs[i]), answered))

NextTwo ==
    \/ \E i \in Instances, opened \in BOOLEAN, banner \in Greetings :
           TwoConnect(i, opened, banner)
    \/ \E i \in Instances, answered \in BOOLEAN : TwoSendCommand(i, answered)
    \/ \E i \in Instances, answered \in BOOLEAN : TwoDisconnect(i, answered)

SpecTwo == Init /\ [][NextTwo]_vars

\* What an instance shows: its connected flag, its socket handle (or that it
\* has none) and its traffic counters.
Shown(i) ==
    LET obj == Object(classAttrs, instAttrs[i])
    IN  [connected |-> GetAttr(obj, "_connected"),
         sock |-> IF HasAttr(obj, "_sock") THEN GetAttr(obj, "_sock") ELSE "unset",
         bytesin |-> GetAttr(obj, "bytesin"),
         bytesout |-> GetAttr(obj, "bytesout")]

\* C17: two sessions do not share state: in any interleaving of connect,
\* disconnect and send_command on two instances, a call on one instance
\* leaves the other's connected flag, socket handle and traffic counters
\* unchanged.
C17_InstancesApart ==
    [][\A j \in Instances : j # actor'.inst => Shown(j)' = Shown(j)]_vars

\* C17's case: both instances were connected and the first was disconnected;
\* the second still shows connected and its socket.
C17_Witness ==
    /\ actor = [inst |-> 1, op |-> "disconnect", result |-> "return"]
    /\ Shown(1).connected = FALSE /\ Shown(1).sock = "None"
    /\ Shown(2).connected = TRUE /\ Shown(2).sock = "socket"


\* ------------------------------------------------------------ login claims

\* A login call on a connected session ended on a status line with an id.
LoginEndedOnStatus ==
    /\ pc = "idle" /\ call.op = "login" /\ call.connected /\ result.kind # "none"
    /\ readLog # <<>>
    /\ ~Raised(LastRead)
    /\ "command" \in DOMAIN LastRead
    /\ LastRead.command = StrError
    /\ StrId \in DOMAIN LastRead.keys

\* C18: TS3Server.login returns True when the server answers the login
\* command with status id 0 and False when it answers with another id.
C18_LoginResult ==
    LoginEndedOnStatus =>
        /\ LastRead.keys[StrId] = StrV(StrZero) => result = Return(BoolV(TRUE))
        /\ LastRead.keys[StrId] # StrV(StrZero) => result = Return(BoolV(FALSE))


\* ------------------------------------------------------ read loop claims

\* The stream has ended and nothing is left to read in a send_command call.
ReadingAtEof == pc = "reading" /\ eof /\ stream = <<>>

\* C19 (each read): at the end of the stream a read gives '', which is parsed
\* as a data line with empty keys: the call goes on reading and what it adds
\* to its accumulator is an empty key-mapping.
C19_EofStep ==
    [][ReadingAtEof =>
           /\ pc' = "reading"
           /\ ret' = ret \/ ret' = Append(ret, EmptyDict)
           /\ result' = result]_vars

\* C19 (for ever): such a call keeps appending, up to the length the
\* accumulator is kept to.
C19_EofAppends ==
    ReadingAtEof ~> (ReadingAtEof /\ Len(ret) = MaxRet /\ ret[MaxRet] = EmptyDict)

\* C19: a read that yields no tokens (a blank line, the empty string at the
\* end of the stream) is parsed as a data line with empty keys, so when the
\* peer closes the stream before a status line send_command never returns and
\* keeps appending empty key-mappings to its accumulator.
C19_EofNeverReturns == C19_EofStep /\ C19_EofAppends

\* C19's case: a send_command call at the end of the stream has filled its
\* accumulator with empty key-mappings.
C19_Witness ==
    /\ ReadingAtEof
    /\ call.op = "send_command"
    /\ ret = [i \in 1..MaxRet |-> EmptyDict]

\* The first token of a line, and whether it is non-empty without "=".
FirstTokenOf(l) == Before(Strip[l], " ")
StartsWithCommand(l) == FirstTokenOf(l) # <<>> /\ ~HasChar(FirstTokenOf(l), "=")

\* C20: send_command ends its read loop at the first line received whose first
\* token is non-empty and has no "=", whatever the token; when the token is
\* not `error` the call returns None: neither the data lines read (they are
\* discarded) nor an id.
C20_EndsAtFirstCommandLine ==
    /\ pc = "reading" => \A i \in 1..Len(readLog) : ~StartsWithCommand(readLog[i])
    /\ (SendCommandEnded /\ result.kind = "return") =>
           /\ readLog # <<>>
           /\ \A i \in 1..Len(readLog) : StartsWithCommand(readLog[i]) <=> i = Len(readLog)
           /\ FirstTokenOf(readLog[Len(readLog)]) # StrError => result = Return(NoneV)

\* C20's case: a data line, then a `notify` line; the call returned None.
C20_Witness ==
    /\ SendCommandEnded
    /\ readLog = <<LineDataNested, LineNotify>>
    /\ result = Return(NoneV)

=============================================================================
